---- MODULE Spec2Model ----
(***************************************************************************)
(* Order book matching engine of the order management service.             *)
(*                                                                         *)
(* The store (tables orders and trades), the process-wide in-memory        *)
(* OrderBook, its RLock, and the request / background threads of the       *)
(* OrderViewSet handlers are modelled.  Prices are integer ticks,          *)
(* created_at order is order_id order.  A Python Order object and a row    *)
(* of the orders table are records of the same shape; Order.save() writes  *)
(* every field of the object to the row.  user_id and the timestamps of    *)
(* an order take no part in matching and are not carried.                  *)
(***************************************************************************)
EXTENDS Integers, Sequences, FiniteSets, TLC

\* ------------------------------------------------------------------ bounds
MaxPrice == 2
MaxQty == 2
MaxOrders == 3
MaxThreads == 2
MaxTrades == 4
MaxFaults == 1
MaxOps == 3
MaxRaceOps == 4
MaxSettleOps == 2
MaxSettling == 2
MaxDepth == 2
MaxMsgs == 2
MaxFrames == 2
AvgDigits == 2

Prices == 1..MaxPrice
Qtys == 1..MaxQty
OrderIds == 1..MaxOrders
Threads == 1..MaxThreads

\* ------------------------------------------------------- program constants
BUY == 1
SELL == -1
None == 0

\* ------------------------------------------------------------------ helpers
Put(f, k, v) == [x \in (DOMAIN f) \cup {k} |-> IF x = k THEN v ELSE f[x]]

Drop(f, k) == [x \in (DOMAIN f) \ {k} |-> f[x]]

SetMax(S) == CHOOSE x \in S : \A y \in S : y <= x

SetMin(S) == CHOOSE x \in S : \A y \in S : x <= y

MinOf(a, b) == IF a <= b THEN a ELSE b

\* n / d rounded to the nearest integer, ties to the even one (ROUND_HALF_EVEN,
\* the rounding of the decimal context), for n >= 0 and d > 0
RoundDiv(n, d) ==
  LET q == n \div d
      r == n % d
  IN  IF 2 * r < d THEN q
      ELSE IF 2 * r > d THEN q + 1
      ELSE IF q % 2 = 0 THEN q ELSE q + 1

RemoveAt(s, i) == SubSeq(s, 1, i - 1) \o SubSeq(s, i + 1, Len(s))

\* positions of the entries of level list s that are Order objects of id
PosOf(s, id) == {i \in 1..Len(s) : s[i].order_id = id}

\* ------------------------------------------------------------ Order objects
\* average_traded_price is a Decimal: in memory it keeps the digits the decimal
\* context gives a quotient, in the store the two decimal places of its column.
\* It is counted in units of 1 / AvgScale of a tick; the model keeps AvgDigits
\* digits below the tick where the context keeps 28 significant digits.
AvgScale == 10 ^ AvgDigits

NoOrder ==
  [order_id |-> 0, side |-> 0, price |-> 0, quantity |-> 0,
   remaining_quantity |-> 0, traded_quantity |-> 0, average_traded_price |-> 0,
   status |-> "NONE", is_active |-> FALSE]

\* Order.save(): every field of the object is written to the row; the
\* DecimalField(decimal_places=2) column holds the average rounded to the tick
Saved(o) ==
  [o EXCEPT !.average_traded_price = RoundDiv(@, AvgScale) * AvgScale]

\* Order.objects.create(**order_data) of OrderViewSet.create
NewOrder(id, side, price, qty) ==
  [order_id |-> id, side |-> side, price |-> price, quantity |-> qty,
   remaining_quantity |-> qty, traded_quantity |-> 0, average_traded_price |-> 0,
   status |-> "ACTIVE", is_active |-> TRUE]

\* Order.mark_as_filled
mark_as_filled(o) ==
  [o EXCEPT !.status = "FILLED", !.is_active = FALSE, !.remaining_quantity = 0]

\* Order.update_trade raises ValueError
update_trade_raises(o, trade_quantity) == trade_quantity > o.remaining_quantity

\* "Calculate new average price": the running average after a fill of
\* trade_quantity at trade_price, o already holding the new traded_quantity
NewAverage(o, trade_quantity, trade_price) ==
  IF o.traded_quantity > 0
  THEN RoundDiv(o.average_traded_price * (o.traded_quantity - trade_quantity)
                  + trade_price * AvgScale * trade_quantity,
                o.traded_quantity)
  ELSE o.average_traded_price

\* update_trade without its "if self.remaining_quantity == 0" branch
update_trade_no_fill(o, trade_quantity, trade_price) ==
  LET o1 == [o EXCEPT !.remaining_quantity = @ - trade_quantity,
                      !.traded_quantity = @ + trade_quantity]
      o2 == [o1 EXCEPT !.average_traded_price = NewAverage(o1, trade_quantity, trade_price)]
  IN  IF o2.traded_quantity > 0 THEN [o2 EXCEPT !.status = "PARTIALLY_FILLED"] ELSE o2

\* Order.update_trade: the object after the call; Order.save() then writes
\* every field of it to the row
update_trade(o, trade_quantity, trade_price) ==
  LET o1 == [o EXCEPT !.remaining_quantity = @ - trade_quantity,
                      !.traded_quantity = @ + trade_quantity]
      o2 == [o1 EXCEPT !.average_traded_price = NewAverage(o1, trade_quantity, trade_price)]
  IN  IF o2.remaining_quantity = 0 THEN mark_as_filled(o2)
      ELSE IF o2.traded_quantity > 0 THEN [o2 EXCEPT !.status = "PARTIALLY_FILLED"]
      ELSE o2

\* ------------------------------------------------------------------ the book
EmptyFn == [x \in {} |-> <<>>]

\* OrderBook.__init__
EmptyBook ==
  [bids |-> EmptyFn, asks |-> EmptyFn, order_lookup |-> EmptyFn,
   best_bid |-> None, best_ask |-> None, bid_prices |-> {}, ask_prices |-> {}]

Level(levels, p) == IF p \in DOMAIN levels THEN levels[p] ELSE <<>>

\* an insert at the front of the level
_add_buy_order_front(bk, o) ==
  [bk EXCEPT !.bids = Put(@, o.price, <<o>> \o Level(bk.bids, o.price)),
             !.bid_prices = @ \cup {o.price},
             !.order_lookup = Put(@, o.order_id, [price |-> o.price, side |-> BUY]),
             !.best_bid = IF @ = None \/ o.price > @ THEN o.price ELSE @]

\* OrderBook._add_buy_order
_add_buy_order(bk, o) ==
  [bk EXCEPT !.bids = Put(@, o.price, Append(Level(bk.bids, o.price), o)),
             !.bid_prices = @ \cup {o.price},
             !.order_lookup = Put(@, o.order_id, [price |-> o.price, side |-> BUY]),
             !.best_bid = IF @ = None \/ o.price > @ THEN o.price ELSE @]

\* an insert that takes the price of the newest ask as the best ask
_add_sell_order_last(bk, o) ==
  [bk EXCEPT !.asks = Put(@, o.price, Append(Level(bk.asks, o.price), o)),
             !.ask_prices = @ \cup {o.price},
             !.order_lookup = Put(@, o.order_id, [price |-> o.price, side |-> SELL]),
             !.best_ask = o.price]

\* OrderBook._add_sell_order
_add_sell_order(bk, o) ==
  [bk EXCEPT !.asks = Put(@, o.price, Append(Level(bk.asks, o.price), o)),
             !.ask_prices = @ \cup {o.price},
             !.order_lookup = Put(@, o.order_id, [price |-> o.price, side |-> SELL]),
             !.best_ask = IF @ = None \/ o.price < @ THEN o.price ELSE @]

AddToBook(bk, o) == IF o.side = BUY THEN _add_buy_order(bk, o) ELSE _add_sell_order(bk, o)

\* OrderBook._update_best_bid
_update_best_bid(bk) ==
  [bk EXCEPT !.best_bid = IF bk.bid_prices # {} THEN SetMax(bk.bid_prices) ELSE None]

\* OrderBook._update_best_ask
_update_best_ask(bk) ==
  [bk EXCEPT !.best_ask = IF bk.ask_prices # {} THEN SetMin(bk.ask_prices) ELSE None]

\* the resting side an incoming order of side s matches against
OppLevels(bk, s) == IF s = BUY THEN bk.asks ELSE bk.bids

OppBest(bk, s) == IF s = BUY THEN bk.best_ask ELSE bk.best_bid

\* the loop condition with a strict comparison of the prices
MatchCond_strict(bk, o) ==
  /\ o.remaining_quantity > 0
  /\ OppBest(bk, o.side) # None
  /\ IF o.side = BUY THEN o.price > bk.best_ask ELSE o.price < bk.best_bid

\* loop condition of _match_buy_order / _match_sell_order
MatchCond(bk, o) ==
  /\ o.remaining_quantity > 0
  /\ OppBest(bk, o.side) # None
  /\ IF o.side = BUY THEN o.price >= bk.best_ask ELSE o.price <= bk.best_bid

\* ask_orders = self.asks.get(self.best_ask, []) (bid_orders for a sell)
BestList(bk, s) == Level(OppLevels(bk, s), OppBest(bk, s))

\* "if not ask_orders: self._update_best_ask(); continue"
RefreshBest(bk, s) == IF s = BUY THEN _update_best_ask(bk) ELSE _update_best_bid(bk)

\* the resting head after its update_trade: write it back into its level
SetHead(bk, s, o) ==
  IF s = BUY THEN [bk EXCEPT !.asks[bk.best_ask][1] = o]
  ELSE [bk EXCEPT !.bids[bk.best_bid][1] = o]

\* "ask_orders.pop(0)" of the filled resting head
PopHead(bk, s) ==
  IF s = BUY THEN [bk EXCEPT !.asks[bk.best_ask] = Tail(@)]
  ELSE [bk EXCEPT !.bids[bk.best_bid] = Tail(@)]

\* "if not ask_orders: del self.asks[best]; discard(best); _update_best_ask()"
DropEmptyBest(bk, s) ==
  IF BestList(bk, s) # <<>> THEN bk
  ELSE IF s = BUY
       THEN _update_best_ask([bk EXCEPT !.asks = Drop(@, bk.best_ask),
                                        !.ask_prices = @ \ {bk.best_ask}])
       ELSE _update_best_bid([bk EXCEPT !.bids = Drop(@, bk.best_bid),
                                        !.bid_prices = @ \ {bk.best_bid}])

\* the query of _load_matching_orders: ids of the rows it selects
MatchingIds(rows, new_order) ==
  {i \in DOMAIN rows :
     /\ rows[i].side = -new_order.side
     /\ rows[i].is_active
     /\ rows[i].status \in {"ACTIVE", "PARTIALLY_FILLED"}
     /\ IF new_order.side = BUY THEN rows[i].price <= new_order.price
        ELSE rows[i].price >= new_order.price
     /\ i # new_order.order_id}

\* order_by('price', 'created_at') for a buy, order_by('-price', 'created_at')
\* for a sell
SortKey(rows, i, s) ==
  (IF s = BUY THEN rows[i].price ELSE MaxPrice + 1 - rows[i].price) * (MaxOrders + 2) + i

RECURSIVE OrderBy(_, _, _)
OrderBy(rows, S, s) ==
  IF S = {} THEN <<>>
  ELSE LET m == CHOOSE x \in S : \A y \in S : SortKey(rows, x, s) <= SortKey(rows, y, s)
       IN  <<m>> \o OrderBy(rows, S \ {m}, s)

\* the loop of _load_matching_orders over existing_orders
RECURSIVE LoadEach(_, _, _)
LoadEach(bk, rows, ids) ==
  IF ids = <<>> THEN bk
  ELSE LET o == rows[Head(ids)]
           bk1 == IF o.order_id \notin DOMAIN bk.order_lookup THEN AddToBook(bk, o) ELSE bk
       IN  LoadEach(bk1, rows, Tail(ids))

\* OrderBook._load_matching_orders
_load_matching_orders(bk, rows, new_order) ==
  LoadEach(bk, rows, OrderBy(rows, MatchingIds(rows, new_order), new_order.side))

\* ---------------------------------------------------- OrderBook.cancel_order
CancelLevels(bk, id) ==
  IF bk.order_lookup[id].side = BUY THEN bk.bids ELSE bk.asks

\* self.bids[price] raises KeyError / order_list.remove raises ValueError
cancel_raises(bk, id) ==
  LET lk == bk.order_lookup[id]
  IN  \/ lk.price \notin DOMAIN CancelLevels(bk, id)
      \/ PosOf(CancelLevels(bk, id)[lk.price], id) = {}

\* the object held by order_lookup[id].  _add_buy_order / _add_sell_order set
\* the entry to the object they append, and every removal of an object from a
\* level deletes the entry of its id, so it is the object appended last under
\* that id at the recorded price
LookupObject(bk, id) ==
  LET lst == CancelLevels(bk, id)[bk.order_lookup[id].price]
  IN  lst[SetMax(PosOf(lst, id))]

\* cancelling as Order.mark_as_cancelled does, which zeroes remaining_quantity
Cancelled_zeroed(o) ==
  [o EXCEPT !.status = "CANCELLED", !.is_active = FALSE, !.remaining_quantity = 0]

\* "order.status = 'CANCELLED'; order.is_active = False"
Cancelled(o) == [o EXCEPT !.status = "CANCELLED", !.is_active = FALSE]

\* the book after cancel_order(id) for an id in order_lookup
cancel_order(bk, id) ==
  LET lk == bk.order_lookup[id]
      lst == CancelLevels(bk, id)[lk.price]
      last == SetMax(PosOf(lst, id))
      first == SetMin(PosOf(lst, id))
      lst1 == RemoveAt([lst EXCEPT ![last] = Cancelled(@)], first)
      bk1 == IF lk.side = BUY
             THEN IF lst1 # <<>> THEN [bk EXCEPT !.bids[lk.price] = lst1]
                  ELSE LET b == [bk EXCEPT !.bids = Drop(@, lk.price),
                                           !.bid_prices = @ \ {lk.price}]
                       IN  IF lk.price = bk.best_bid THEN _update_best_bid(b) ELSE b
             ELSE IF lst1 # <<>> THEN [bk EXCEPT !.asks[lk.price] = lst1]
                  ELSE LET b == [bk EXCEPT !.asks = Drop(@, lk.price),
                                           !.ask_prices = @ \ {lk.price}]
                       IN  IF lk.price = bk.best_ask THEN _update_best_ask(b) ELSE b
  IN  [bk1 EXCEPT !.order_lookup = Drop(@, id)]

\* -------------------------------------------------------------------- state
VARIABLES
  orders,     \* table orders: order_id -> row
  trades,     \* table trades, in creation order
  book,       \* the global OrderBook instance
  lock,       \* OrderBook._lock: the thread that holds it, 0 when free
  th,         \* handler threads: request thread and its background thread
  arrivals,   \* history: order ids by arrival (place, or latest modify)
  acceptSeq,  \* history: placed order ids in the order their responses were produced
  applySeq,   \* history: placed order ids in the order add_order took them up
  cancelOK,   \* history: order ids whose cancel returned success
  faults,     \* number of store write failures injected so far
  nops,       \* number of requests so far
  resp,       \* the last error response a handler returned
  settling,   \* TradeSettlementView.post: per trade, the handlers between get and save
  pre,        \* history: the order placed last and the book before that place
  ws          \* one websocket connection: its consumer, messages, replies, stream

vars == <<orders, trades, book, lock, th, arrivals, acceptSeq, applySeq, cancelOK, faults, nops,
          resp, settling, pre, ws>>

\* no connection: nothing accepted, no update_task
NoSocket ==
  [consumer |-> "none", open |-> FALSE, update_task |-> FALSE, msgs |-> <<>>,
   replies |-> <<>>, frames |-> 0]

NoResp == [op |-> "none", id |-> 0, code |-> 0]

NoPre == [id |-> 0, book |-> EmptyBook]

IdleThread ==
  [kind |-> "idle", vpc |-> "done", bpc |-> "done", order |-> NoOrder,
   new_price |-> 0, tq |-> 0, removed |-> FALSE, last_price |-> None]

\* a thread whose request and background parts have both ended is gone
Finish(r) == IF r.vpc = "done" /\ r.bpc = "done" THEN IdleThread ELSE r

Quiescent == lock = 0 /\ \A t \in Threads : th[t].kind = "idle"

FreeThread == SetMin({t \in Threads : th[t].kind = "idle"})

HasFree == \E t \in Threads : th[t].kind = "idle"

Init ==
  /\ orders = EmptyFn
  /\ trades = <<>>
  /\ book = EmptyBook
  /\ lock = 0
  /\ th = [t \in Threads |-> IdleThread]
  /\ arrivals = <<>>
  /\ acceptSeq = <<>>
  /\ applySeq = <<>>
  /\ cancelOK = {}
  /\ faults = 0
  /\ nops = 0
  /\ resp = NoResp
  /\ settling = [i \in 1..MaxTrades |-> 0]
  /\ pre = NoPre
  /\ ws = NoSocket

Without(s, id) == SelectSeq(s, LAMBDA x : x # id)

\* a state check that lets every order through
CanTouch_always(row) == TRUE

\* the negation of "not order.is_active or order.status in ['FILLED', 'CANCELLED']"
CanTouch(row) == ~(~row.is_active \/ row.status \in {"FILLED", "CANCELLED"})

\* ------------------------------------------------------- OrderViewSet.create
\* Order.objects.create and thread.start()
Place(side, price, qty) ==
  /\ HasFree
  /\ nops' = nops + 1
  /\ Cardinality(DOMAIN orders) < MaxOrders
  /\ LET id == Cardinality(DOMAIN orders) + 1
         o == NewOrder(id, side, price, qty)
     IN  /\ orders' = Put(orders, id, o)
         /\ th' = [th EXCEPT ![FreeThread] =
                     [IdleThread EXCEPT !.kind = "place", !.vpc = "respond",
                                        !.bpc = "start", !.order = o]]
         /\ arrivals' = Append(arrivals, id)
  /\ UNCHANGED <<trades, book, lock, acceptSeq, applySeq, cancelOK, faults, resp, settling, ws>>

\* the Response of create / update is returned
Respond(t) ==
  /\ th[t].vpc = "respond"
  /\ th' = [th EXCEPT ![t] = Finish([@ EXCEPT !.vpc = "done"])]
  /\ acceptSeq' = IF th[t].kind = "place" THEN Append(acceptSeq, th[t].order.order_id)
                  ELSE acceptSeq
  /\ UNCHANGED <<orders, trades, book, lock, arrivals, applySeq, cancelOK, faults, nops, resp, settling, pre, ws>>

\* ------------------------------------------------------- OrderViewSet.update
\* Order.objects.get and the modifiable check
ModifyGet(id, p) ==
  /\ HasFree
  /\ nops' = nops + 1
  /\ id \in DOMAIN orders
  /\ CanTouch(orders[id])
  /\ th' = [th EXCEPT ![FreeThread] =
              [IdleThread EXCEPT !.kind = "modify", !.vpc = "save", !.bpc = "none",
                                 !.order = orders[id], !.new_price = p]]
  /\ UNCHANGED <<orders, trades, book, lock, arrivals, acceptSeq, applySeq, cancelOK, faults, resp, settling, ws>>

\* order.price = new_price ... order.save() and thread.start()
ModifySave(t) ==
  /\ th[t].kind = "modify" /\ th[t].vpc = "save"
  /\ LET o == [th[t].order EXCEPT !.price = th[t].new_price, !.status = "ACTIVE",
                                  !.is_active = TRUE]
     IN  /\ orders' = [orders EXCEPT ![o.order_id] = Saved(o)]
         /\ th' = [th EXCEPT ![t] = [@ EXCEPT !.order = o, !.vpc = "respond", !.bpc = "cancel"]]
         /\ arrivals' = Append(Without(arrivals, o.order_id), o.order_id)
  /\ UNCHANGED <<trades, book, lock, acceptSeq, applySeq, cancelOK, faults, nops, resp, settling, pre, ws>>

\* _process_modified_order_in_background: order_book.cancel_order(order_id)
ModifyCancel(t) ==
  /\ th[t].kind = "modify" /\ th[t].bpc = "cancel"
  /\ lock = 0
  /\ LET id == th[t].order.order_id
     IN  IF id \notin DOMAIN book.order_lookup
         THEN /\ th' = [th EXCEPT ![t].bpc = "start"]
              /\ UNCHANGED <<orders, book>>
         ELSE IF cancel_raises(book, id)
         THEN /\ th' = [th EXCEPT ![t] = Finish([@ EXCEPT !.bpc = "done"])]
              /\ UNCHANGED <<orders, book>>
         ELSE /\ orders' = [orders EXCEPT ![id] = Saved(Cancelled(LookupObject(book, id)))]
              /\ book' = cancel_order(book, id)
              /\ th' = [th EXCEPT ![t] = [@ EXCEPT !.bpc = "start", !.removed = TRUE]]
  /\ UNCHANGED <<trades, lock, arrivals, acceptSeq, applySeq, cancelOK, faults, nops, resp, settling, pre, ws>>

\* ------------------------------------------------------ OrderViewSet.destroy
\* Order.objects.get and the cancellable check
CancelGet(id) ==
  /\ HasFree
  /\ nops' = nops + 1
  /\ id \in DOMAIN orders
  /\ CanTouch(orders[id])
  /\ th' = [th EXCEPT ![FreeThread] =
              [IdleThread EXCEPT !.kind = "cancel", !.vpc = "cancel", !.order = orders[id]]]
  /\ UNCHANGED <<orders, trades, book, lock, arrivals, acceptSeq, applySeq, cancelOK, faults, resp, settling, ws>>

\* success = order_book.cancel_order(order_id); the response when it is True
CancelBook(t) ==
  /\ th[t].kind = "cancel" /\ th[t].vpc = "cancel"
  /\ lock = 0
  /\ LET id == th[t].order.order_id
     IN  IF id \notin DOMAIN book.order_lookup
         THEN /\ th' = [th EXCEPT ![t].vpc = "fallback"]
              /\ UNCHANGED <<orders, book, cancelOK>>
         ELSE IF cancel_raises(book, id)
         THEN /\ th' = [th EXCEPT ![t] = IdleThread]
              /\ UNCHANGED <<orders, book, cancelOK>>
         ELSE /\ orders' = [orders EXCEPT ![id] = Saved(Cancelled(LookupObject(book, id)))]
              /\ book' = cancel_order(book, id)
              /\ th' = [th EXCEPT ![t] = IdleThread]
              /\ cancelOK' = cancelOK \cup {id}
  /\ UNCHANGED <<trades, lock, arrivals, acceptSeq, applySeq, faults, nops, resp, settling, pre, ws>>

\* "Order not in book, just update database" and its response
CancelFallback(t) ==
  /\ th[t].kind = "cancel" /\ th[t].vpc = "fallback"
  /\ orders' = [orders EXCEPT ![th[t].order.order_id] = Saved(Cancelled(th[t].order))]
  /\ th' = [th EXCEPT ![t] = IdleThread]
  /\ cancelOK' = cancelOK \cup {th[t].order.order_id}
  /\ UNCHANGED <<trades, book, lock, arrivals, acceptSeq, applySeq, faults, nops, resp, settling, pre, ws>>

\* ------------------------------------------------------- OrderBook.add_order
\* "with self._lock:" and "await self._load_matching_orders(order)"
Load(t) ==
  /\ th[t].bpc = "start"
  /\ lock = 0
  /\ lock' = t
  /\ book' = _load_matching_orders(book, orders, th[t].order)
  /\ th' = [th EXCEPT ![t].bpc = "match"]
  /\ applySeq' = IF th[t].kind = "place" THEN Append(applySeq, th[t].order.order_id)
                 ELSE applySeq
  /\ UNCHANGED <<orders, trades, arrivals, acceptSeq, cancelOK, faults, nops, resp, settling, pre, ws>>

\* a trade created at the incoming order's limit price
NewTrade_aggressor_price(bk, o, q) ==
  [price |-> o.price, quantity |-> q,
   bid_order |-> IF o.side = BUY THEN o.order_id ELSE BestList(bk, o.side)[1].order_id,
   ask_order |-> IF o.side = BUY THEN BestList(bk, o.side)[1].order_id ELSE o.order_id,
   is_settled |-> FALSE, settlement_timestamp |-> None]

\* the trade that Trade.objects.create persists in the matching loop
NewTrade(bk, o, q) ==
  [price |-> OppBest(bk, o.side), quantity |-> q,
   bid_order |-> IF o.side = BUY THEN o.order_id ELSE BestList(bk, o.side)[1].order_id,
   ask_order |-> IF o.side = BUY THEN BestList(bk, o.side)[1].order_id ELSE o.order_id,
   is_settled |-> FALSE, settlement_timestamp |-> None]

\* a trade quantity that ignores the resting order
trade_quantity_incoming(o, h) == o.remaining_quantity

\* trade_quantity = min(buy_order.remaining_quantity, sell_order.remaining_quantity)
trade_quantity(o, h) == MinOf(o.remaining_quantity, h.remaining_quantity)

\* one evaluation of the while condition of _match_buy_order / _match_sell_order:
\* leave the loop (then rest the order and return), refresh a stale best price,
\* or create the next trade
Match(t) ==
  /\ th[t].bpc = "match"
  /\ LET o == th[t].order
     IN  IF ~MatchCond(book, o)
         THEN /\ book' = IF o.remaining_quantity > 0 THEN AddToBook(book, o) ELSE book
              /\ lock' = 0
              /\ th' = [th EXCEPT ![t] = Finish([@ EXCEPT !.bpc = "done"])]
              /\ UNCHANGED trades
         ELSE IF BestList(book, o.side) = <<>>
         THEN /\ book' = RefreshBest(book, o.side)
              /\ UNCHANGED <<trades, lock, th>>
         ELSE LET q == trade_quantity(o, BestList(book, o.side)[1])
              IN  /\ Len(trades) < MaxTrades
                  /\ trades' = Append(trades, NewTrade(book, o, q))
                  /\ th' = [th EXCEPT ![t] = [@ EXCEPT !.tq = q, !.bpc = "upd_in",
                                                       !.last_price = OppBest(book, o.side)]]
                  /\ UNCHANGED <<book, lock>>
  /\ UNCHANGED <<orders, arrivals, acceptSeq, applySeq, cancelOK, faults, nops, resp, settling, pre, ws>>

\* the exception handler of add_order: "return trades", the lock is released
Abort(t) ==
  /\ lock' = 0
  /\ th' = [th EXCEPT ![t] = Finish([@ EXCEPT !.bpc = "done"])]

\* "buy_order.update_trade(trade_quantity, ...)" on the incoming order
UpdIncoming(t) ==
  /\ th[t].bpc = "upd_in"
  /\ LET o == th[t].order
     IN  IF update_trade_raises(o, th[t].tq)
         THEN Abort(t) /\ UNCHANGED orders
         ELSE LET o1 == update_trade(o, th[t].tq, OppBest(book, o.side))
              IN  /\ orders' = [orders EXCEPT ![o.order_id] = Saved(o1)]
                  /\ th' = [th EXCEPT ![t] = [@ EXCEPT !.order = o1, !.bpc = "upd_rest"]]
                  /\ UNCHANGED lock
  /\ UNCHANGED <<trades, book, arrivals, acceptSeq, applySeq, cancelOK, faults, nops, resp, settling, pre, ws>>

\* "sell_order.update_trade(...)" on the resting head and "Remove filled sell order"
UpdResting(t) ==
  /\ th[t].bpc = "upd_rest"
  /\ LET s == th[t].order.side
         h == BestList(book, s)[1]
     IN  IF update_trade_raises(h, th[t].tq)
         THEN Abort(t) /\ UNCHANGED <<orders, book>>
         ELSE LET h1 == update_trade(h, th[t].tq, OppBest(book, s))
                  bk1 == SetHead(book, s, h1)
              IN  /\ orders' = [orders EXCEPT ![h.order_id] = Saved(h1)]
                  /\ IF h1.remaining_quantity # 0
                     THEN /\ book' = bk1
                          /\ th' = [th EXCEPT ![t].bpc = "match"]
                          /\ UNCHANGED lock
                     ELSE IF h.order_id \notin DOMAIN book.order_lookup
                     THEN /\ book' = PopHead(bk1, s)
                          /\ Abort(t)
                     ELSE /\ book' = DropEmptyBest(
                                       [PopHead(bk1, s) EXCEPT !.order_lookup = Drop(@, h.order_id)], s)
                          /\ th' = [th EXCEPT ![t].bpc = "match"]
                          /\ UNCHANGED lock
  /\ UNCHANGED <<trades, arrivals, acceptSeq, applySeq, cancelOK, faults, nops, resp, settling, pre, ws>>

\* the process is restarted: "order_book = OrderBook()", the store persists
Restart ==
  /\ Quiescent
  /\ book # EmptyBook
  /\ book' = EmptyBook
  /\ UNCHANGED <<orders, trades, lock, th, arrivals, acceptSeq, applySeq, cancelOK, faults, nops, resp, settling, pre, ws>>

\* ------------------------------------------------------ store write failures
\* Trade.objects.create raises
FailTradeCreate(t) ==
  /\ faults < MaxFaults
  /\ th[t].bpc = "match"
  /\ MatchCond(book, th[t].order)
  /\ BestList(book, th[t].order.side) # <<>>
  /\ Abort(t)
  /\ faults' = faults + 1
  /\ UNCHANGED <<orders, trades, book, arrivals, acceptSeq, applySeq, cancelOK, nops, resp, settling, pre, ws>>

\* save() inside the incoming order's update_trade raises
FailUpdIncoming(t) ==
  /\ faults < MaxFaults
  /\ th[t].bpc = "upd_in"
  /\ Abort(t)
  /\ faults' = faults + 1
  /\ UNCHANGED <<orders, trades, book, arrivals, acceptSeq, applySeq, cancelOK, nops, resp, settling, pre, ws>>

\* save() inside the resting order's update_trade raises: the object in the
\* book is already changed, the row is not, the filled head is not removed
FailUpdResting(t) ==
  /\ faults < MaxFaults
  /\ th[t].bpc = "upd_rest"
  /\ ~update_trade_raises(BestList(book, th[t].order.side)[1], th[t].tq)
  /\ book' = SetHead(book, th[t].order.side,
                     update_trade(BestList(book, th[t].order.side)[1], th[t].tq,
                                  OppBest(book, th[t].order.side)))
  /\ Abort(t)
  /\ faults' = faults + 1
  /\ UNCHANGED <<orders, trades, arrivals, acceptSeq, applySeq, cancelOK, nops, resp, settling, pre, ws>>

\* ------------------------------------------------------- rejected requests
\* update: "Order not found" (404) and "Order cannot be modified" (400)
ModifyReject(id) ==
  /\ \/ id \notin DOMAIN orders /\ resp' = [op |-> "modify", id |-> id, code |-> 404]
     \/ /\ id \in DOMAIN orders
        /\ ~CanTouch(orders[id])
        /\ resp' = [op |-> "modify", id |-> id, code |-> 400]
  /\ nops' = nops + 1
  /\ UNCHANGED <<orders, trades, book, lock, th, arrivals, acceptSeq, applySeq, cancelOK,
                 faults, settling, pre, ws>>

\* destroy: "Order not found" (404) and "Order cannot be cancelled" (400)
CancelReject(id) ==
  /\ \/ id \notin DOMAIN orders /\ resp' = [op |-> "cancel", id |-> id, code |-> 404]
     \/ /\ id \in DOMAIN orders
        /\ ~CanTouch(orders[id])
        /\ resp' = [op |-> "cancel", id |-> id, code |-> 400]
  /\ nops' = nops + 1
  /\ UNCHANGED <<orders, trades, book, lock, th, arrivals, acceptSeq, applySeq, cancelOK,
                 faults, settling, pre, ws>>

\* ------------------------------------------------------- request validation
\* A price of a request body is a decimal numeral: sign, whole part, two
\* decimal places (cents) and a third decimal place (mills).
RawPrice(neg, units, cents, mills) ==
  [neg |-> neg, units |-> units, cents |-> cents, mills |-> mills]

\* -1.00, 0.00, 1.005, 1.00, 2.50, 999999.99, 1000000.00, 100000000.00
RawPrices ==
  {RawPrice(TRUE, 1, 0, 0), RawPrice(FALSE, 0, 0, 0), RawPrice(FALSE, 1, 0, 5),
   RawPrice(FALSE, 1, 0, 0), RawPrice(FALSE, 2, 50, 0), RawPrice(FALSE, 999999, 99, 0),
   RawPrice(FALSE, 1000000, 0, 0), RawPrice(FALSE, 100000000, 0, 0)}

RawQtys == {0, 1, 1000000, 1000001}

\* DecimalField(max_digits=10, decimal_places=2, ...)
MAX_DIGITS == 10

DECIMAL_PLACES == 2

\* the price in hundredths, as the two-decimal column stores it
Ticks(raw) == raw.units * (10 ^ DECIMAL_PLACES) + raw.cents

\* serializers.DecimalField(max_digits=10, decimal_places=2, min_value=0.01):
\* at most two decimal places, at most eight digits before the point, and
\* not less than the float 0.01, which is greater than the decimal 0.01
DecimalField(raw) ==
  /\ raw.mills = 0
  /\ raw.units < 10 ^ (MAX_DIGITS - DECIMAL_PLACES)
  /\ ~raw.neg
  /\ (raw.units > 0 \/ raw.cents > 1)

\* serializers.IntegerField(min_value=1)
IntegerField(q) == q >= 1

\* PlaceOrderSerializer.validate_price and ModifyOrderSerializer.validate_price
Serializer_validate_price(raw) ==
  /\ ~(raw.neg \/ (raw.units = 0 /\ raw.cents = 0 /\ raw.mills = 0))
  /\ raw.mills = 0

\* the largest quantity of an order
MAX_QUANTITY == 1000000

\* PlaceOrderSerializer.validate_quantity
Serializer_validate_quantity(q) == ~(q <= 0) /\ ~(q > MAX_QUANTITY)

\* the whole part of Decimal('999999.99')
MAX_PRICE_UNITS == 999999

\* validators.validate_price
validate_price(raw) ==
  /\ ~(raw.neg \/ (raw.units = 0 /\ raw.cents = 0 /\ raw.mills = 0))
  /\ raw.mills = 0
  /\ ~(raw.units > MAX_PRICE_UNITS)

\* validators.validate_quantity
validate_quantity(q) == ~(q <= 0) /\ ~(q > MAX_QUANTITY)

\* validators.validate_order_data on the serializer's validated data
validate_order_data(raw, q) == validate_quantity(q) /\ validate_price(raw)

\* create: serializer.is_valid() and validate_order_data
PlaceAccepts(raw, q) ==
  /\ IntegerField(q)
  /\ DecimalField(raw)
  /\ Serializer_validate_price(raw)
  /\ Serializer_validate_quantity(q)
  /\ validate_order_data(raw, q)

\* update: ModifyOrderSerializer(data=request.data).is_valid(); the body must
\* carry an order_id
ModifyAccepts(raw, has_id) ==
  /\ has_id
  /\ DecimalField(raw)
  /\ Serializer_validate_price(raw)

\* create answers 400 for an invalid body
PlaceInvalid(raw, q) ==
  /\ ~PlaceAccepts(raw, q)
  /\ resp' = [op |-> "place", id |-> 0, code |-> 400]
  /\ nops' = nops + 1
  /\ UNCHANGED <<orders, trades, book, lock, th, arrivals, acceptSeq, applySeq, cancelOK,
                 faults, settling, pre, ws>>

\* update answers 400 for an invalid body of a modifiable order
ModifyInvalid(id, raw, has_id) ==
  /\ id \in DOMAIN orders
  /\ CanTouch(orders[id])
  /\ ~ModifyAccepts(raw, has_id)
  /\ resp' = [op |-> "modify", id |-> id, code |-> 400]
  /\ nops' = nops + 1
  /\ UNCHANGED <<orders, trades, book, lock, th, arrivals, acceptSeq, applySeq, cancelOK,
                 faults, settling, pre, ws>>

\* ------------------------------------- TradeConsumer and OrderBookConsumer
Consumers == {"TradeConsumer", "OrderBookConsumer"}

\* A text frame of the client: whether json.loads accepts it, the kind of
\* value it denotes, and for an object the value under 'type'.
Payload(well_formed, shape, type) ==
  [well_formed |-> well_formed, shape |-> shape, type |-> type]

\* {"type": "ping"}, {"type": "subscribe"}, {}, [1], "ping", null, and text
\* that is not JSON
Payloads ==
  {Payload(TRUE, "object", "ping"), Payload(TRUE, "object", "subscribe"),
   Payload(TRUE, "object", "absent"), Payload(TRUE, "array", "absent"),
   Payload(TRUE, "string", "absent"), Payload(TRUE, "null", "absent"),
   Payload(FALSE, "none", "absent")}

Pong == [type |-> "pong", message |-> "none"]

UnknownType == [type |-> "error", message |-> "Unknown message type"]

InvalidJSON == [type |-> "error", message |-> "Invalid JSON"]

\* "data.get('type')" on a value that is no dict raises AttributeError, which
\* "except json.JSONDecodeError" does not catch
receive_raises(p) == p.well_formed /\ p.shape # "object"

\* the frames receive sends for one message
receive(p) ==
  IF ~p.well_formed THEN <<InvalidJSON>>
  ELSE IF receive_raises(p) THEN <<>>
  ELSE IF p.type = "ping" THEN <<Pong>>
  ELSE <<UnknownType>>

\* connect: accept() and create_task(send_periodic_...)
WsConnect(c) ==
  /\ ~ws.open /\ ws.consumer = "none"
  /\ ws' = [NoSocket EXCEPT !.consumer = c, !.open = TRUE, !.update_task = TRUE]
  /\ UNCHANGED <<orders, trades, book, lock, th, arrivals, acceptSeq, applySeq, cancelOK,
                 faults, nops, resp, settling, pre>>

\* receive(text_data); an exception that leaves receive ends the consumer, and
\* the server may keep the socket or close it
WsReceive(p) ==
  /\ ws.open
  /\ Len(ws.msgs) < MaxMsgs
  /\ \E keeps \in BOOLEAN :
       /\ (~receive_raises(p)) => keeps
       /\ ws' = [ws EXCEPT !.msgs = Append(@, p),
                           !.replies = Append(@, receive(p)),
                           !.open = keeps]
  /\ UNCHANGED <<orders, trades, book, lock, th, arrivals, acceptSeq, applySeq, cancelOK,
                 faults, nops, resp, settling, pre>>

\* one round of send_periodic_trades / send_periodic_updates
WsFrame ==
  /\ ws.open /\ ws.update_task
  /\ ws.frames < MaxFrames
  /\ ws' = [ws EXCEPT !.frames = @ + 1]
  /\ UNCHANGED <<orders, trades, book, lock, th, arrivals, acceptSeq, applySeq, cancelOK,
                 faults, nops, resp, settling, pre>>

\* disconnect: "if self.update_task: self.update_task.cancel()"
WsDisconnect ==
  /\ ws.open
  /\ ws' = [ws EXCEPT !.open = FALSE, !.update_task = FALSE]
  /\ UNCHANGED <<orders, trades, book, lock, th, arrivals, acceptSeq, applySeq, cancelOK,
                 faults, nops, resp, settling, pre>>

\* ------------------------------------------------- TradeSettlementView.post
\* a settle check that lets every trade through
CanSettle_always(trade) == TRUE

\* "if trade.is_settled: return 400"
CanSettle(trade) == ~trade.is_settled

\* the number of settle requests between their check and their save
RECURSIVE InFlight(_, _)
InFlight(f, n) == IF n = 0 THEN 0 ELSE f[n] + InFlight(f, n - 1)

\* Trade.objects.get(trade_id=trade_id) and the settled check; trade ids are
\* the positions in the trades table
SettleGet(i) ==
  /\ i \in 1..Len(trades)
  /\ CanSettle(trades[i])
  /\ InFlight(settling, MaxTrades) < MaxSettling
  /\ settling' = [settling EXCEPT ![i] = @ + 1]
  /\ UNCHANGED <<orders, trades, book, lock, th, arrivals, acceptSeq, applySeq, cancelOK,
                 faults, nops, resp, pre, ws>>

\* "Trade not found" (404) and "Trade already settled" (400)
SettleReject(i) ==
  /\ \/ i \notin 1..Len(trades) /\ resp' = [op |-> "settle", id |-> i, code |-> 404]
     \/ /\ i \in 1..Len(trades)
        /\ ~CanSettle(trades[i])
        /\ resp' = [op |-> "settle", id |-> i, code |-> 400]
  /\ UNCHANGED <<orders, trades, book, lock, th, arrivals, acceptSeq, applySeq, cancelOK,
                 faults, nops, settling, pre, ws>>

\* "trade.is_settled = True; trade.settled_at = timezone.now(); trade.save()":
\* settled_at is no field of Trade, save() writes no column for it, and
\* settlement_timestamp is not assigned
SettleSave(i) ==
  /\ settling[i] > 0
  /\ trades' = [trades EXCEPT ![i].is_settled = TRUE]
  /\ settling' = [settling EXCEPT ![i] = @ - 1]
  /\ UNCHANGED <<orders, book, lock, th, arrivals, acceptSeq, applySeq, cancelOK,
                 faults, nops, resp, pre, ws>>

\* ----------------------------------------------------------- specifications
DoPlace ==
  /\ nops < MaxOps
  /\ UNCHANGED pre
  /\ \E side \in {BUY, SELL}, price \in Prices, qty \in Qtys : Place(side, price, qty)

DoModifyGet ==
  /\ nops < MaxOps
  /\ UNCHANGED pre
  /\ \E id \in OrderIds, p \in Prices : ModifyGet(id, p)

DoCancelGet ==
  /\ nops < MaxOps
  /\ UNCHANGED pre
  /\ \E id \in OrderIds : CancelGet(id)

DoRespond == \E t \in Threads : Respond(t)

DoModifySave == \E t \in Threads : ModifySave(t)

DoModifyCancel == \E t \in Threads : ModifyCancel(t)

DoCancelBook == \E t \in Threads : CancelBook(t)

DoCancelFallback == \E t \in Threads : CancelFallback(t)

DoLoad == \E t \in Threads : Load(t)

DoMatch == \E t \in Threads : Match(t)

DoUpdIncoming == \E t \in Threads : UpdIncoming(t)

DoUpdResting == \E t \in Threads : UpdResting(t)

DoFailTradeCreate == \E t \in Threads : FailTradeCreate(t)

DoFailUpdIncoming == \E t \in Threads : FailUpdIncoming(t)

DoFailUpdResting == \E t \in Threads : FailUpdResting(t)

\* the steps of requests that are under way
Steps ==
  \/ DoRespond
  \/ DoModifySave
  \/ DoModifyCancel
  \/ DoCancelBook
  \/ DoCancelFallback
  \/ DoLoad
  \/ DoMatch
  \/ DoUpdIncoming
  \/ DoUpdResting

\* requests arrive at any time, each on its own thread
Next ==
  \/ DoPlace
  \/ DoModifyGet
  \/ DoCancelGet
  \/ Restart
  \/ Steps

Spec == Init /\ [][Next]_vars

\* one request at a time, each run to completion with its background thread
SeqPlace == Quiescent /\ DoPlace

SeqModifyGet == Quiescent /\ DoModifyGet

SeqCancelGet == Quiescent /\ DoCancelGet

NextSeq ==
  \/ SeqPlace
  \/ SeqModifyGet
  \/ SeqCancelGet
  \/ Restart
  \/ Steps

SpecSeq == Init /\ [][NextSeq]_vars

\* one request at a time, store writes may fail
NextFault ==
  \/ NextSeq
  \/ DoFailTradeCreate
  \/ DoFailUpdIncoming
  \/ DoFailUpdResting

SpecFault == Init /\ [][NextFault]_vars

\* one order request at a time, accepted or rejected
ApiPlace ==
  /\ nops < MaxOps
  /\ Quiescent
  /\ UNCHANGED pre
  /\ \E side \in {BUY, SELL}, price \in Prices, qty \in Qtys : Place(side, price, qty)

ApiModifyGet ==
  /\ nops < MaxOps
  /\ Quiescent
  /\ UNCHANGED pre
  /\ \E id \in OrderIds, p \in Prices : ModifyGet(id, p)

ApiCancelGet ==
  /\ nops < MaxOps
  /\ Quiescent
  /\ UNCHANGED pre
  /\ \E id \in OrderIds : CancelGet(id)

DoModifyReject == nops < MaxOps /\ Quiescent /\ \E id \in OrderIds : ModifyReject(id)

DoCancelReject == nops < MaxOps /\ Quiescent /\ \E id \in OrderIds : CancelReject(id)

DoSettleGet == Quiescent /\ \E i \in 1..MaxTrades : SettleGet(i)

DoSettleReject == Quiescent /\ \E i \in 1..MaxTrades : SettleReject(i)

DoSettleSave == \E i \in 1..MaxTrades : SettleSave(i)

\* with one request at a time and no restart the order a cancel finds active
\* is in the book, so destroy's fallback is not a step here
NextApi ==
  \/ ApiPlace
  \/ ApiModifyGet
  \/ ApiCancelGet
  \/ DoRespond
  \/ DoModifySave
  \/ DoModifyCancel
  \/ DoCancelBook
  \/ DoLoad
  \/ DoMatch
  \/ DoUpdIncoming
  \/ DoUpdResting
  \/ DoModifyReject
  \/ DoCancelReject

SpecApi == Init /\ [][NextApi]_vars

\* trades made by places that arrive one at a time, and their settlement
SettlePlace ==
  /\ nops < MaxSettleOps
  /\ Quiescent
  /\ UNCHANGED pre
  /\ \E side \in {BUY, SELL}, price \in Prices, qty \in Qtys : Place(side, price, qty)

NextSettle ==
  \/ SettlePlace
  \/ DoRespond
  \/ DoLoad
  \/ DoMatch
  \/ DoUpdIncoming
  \/ DoUpdResting
  \/ DoSettleGet
  \/ DoSettleReject
  \/ DoSettleSave

SpecSettle == Init /\ [][NextSettle]_vars

\* a place made while nothing else runs, remembered with the book it found,
\* and cancels at any time; a cancel of another order ends the remembering
RoundPlace ==
  /\ nops < MaxOps
  /\ Quiescent
  /\ pre' = [id |-> Cardinality(DOMAIN orders) + 1, book |-> book]
  /\ \E side \in {BUY, SELL}, price \in Prices, qty \in Qtys : Place(side, price, qty)

RoundCancelGet ==
  /\ nops < MaxOps
  /\ \E id \in OrderIds :
       /\ CancelGet(id)
       /\ pre' = IF id = pre.id THEN pre ELSE NoPre

NextRound ==
  \/ RoundPlace
  \/ RoundCancelGet
  \/ DoRespond
  \/ DoCancelBook
  \/ DoCancelFallback
  \/ DoLoad
  \/ DoMatch
  \/ DoUpdIncoming
  \/ DoUpdResting

SpecRound == Init /\ [][NextRound]_vars

\* places and modifies with any request body, one request at a time; the
\* orders are buys, which rest without trading
ValidPlace ==
  /\ nops < MaxOps
  /\ Quiescent
  /\ UNCHANGED pre
  /\ \E raw \in RawPrices, q \in RawQtys :
       PlaceAccepts(raw, q) /\ Place(BUY, Ticks(raw), q)

ValidModifyGet ==
  /\ nops < MaxOps
  /\ Quiescent
  /\ UNCHANGED pre
  /\ \E id \in OrderIds, raw \in RawPrices, has_id \in BOOLEAN :
       ModifyAccepts(raw, has_id) /\ ModifyGet(id, Ticks(raw))

DoPlaceInvalid ==
  nops < MaxOps /\ Quiescent /\ \E raw \in RawPrices, q \in RawQtys : PlaceInvalid(raw, q)

DoModifyInvalid ==
  /\ nops < MaxOps
  /\ Quiescent
  /\ \E id \in OrderIds, raw \in RawPrices, has_id \in BOOLEAN : ModifyInvalid(id, raw, has_id)

NextValid ==
  \/ ValidPlace
  \/ ValidModifyGet
  \/ DoPlaceInvalid
  \/ DoModifyInvalid
  \/ DoModifyReject
  \/ DoRespond
  \/ DoModifySave
  \/ DoModifyCancel
  \/ DoLoad
  \/ DoMatch

SpecValid == Init /\ [][NextValid]_vars

\* one websocket connection and its messages
DoWsConnect == \E c \in Consumers : WsConnect(c)

DoWsReceive == \E p \in Payloads : WsReceive(p)

NextWs ==
  \/ DoWsConnect
  \/ DoWsReceive
  \/ WsFrame
  \/ WsDisconnect

SpecWs == Init /\ [][NextWs]_vars

\* places and cancels that overlap, a longer run of them, no modify
RacePlace ==
  /\ nops < MaxRaceOps
  /\ UNCHANGED pre
  /\ \E side \in {BUY, SELL}, price \in Prices, qty \in Qtys : Place(side, price, qty)

RaceCancelGet ==
  /\ nops < MaxRaceOps
  /\ UNCHANGED pre
  /\ \E id \in OrderIds : CancelGet(id)

NextRace ==
  \/ RacePlace
  \/ RaceCancelGet
  \/ DoRespond
  \/ DoCancelBook
  \/ DoCancelFallback
  \/ DoLoad
  \/ DoMatch
  \/ DoUpdIncoming
  \/ DoUpdResting

SpecRace == Init /\ [][NextRace]_vars

\* places and modifies that overlap, a longer run of them, no cancel
RaceModifyGet ==
  /\ nops < MaxRaceOps
  /\ UNCHANGED pre
  /\ \E id \in OrderIds, p \in Prices : ModifyGet(id, p)

NextLoop ==
  \/ RacePlace
  \/ RaceModifyGet
  \/ DoRespond
  \/ DoModifySave
  \/ DoModifyCancel
  \/ DoLoad
  \/ DoMatch
  \/ DoUpdIncoming
  \/ DoUpdResting

SpecLoop == Init /\ [][NextLoop]_vars

\* ------------------------------------------------------------------- claims
Range(s) == {s[i] : i \in 1..Len(s)}

IndexOf(s, x) == SetMin({i \in 1..Len(s) : s[i] = x})

\* sum of the quantities of the persisted trades that reference order id
RECURSIVE TradeSum(_, _)
TradeSum(ts, id) ==
  IF ts = <<>> THEN 0
  ELSE (IF Head(ts).bid_order = id \/ Head(ts).ask_order = id THEN Head(ts).quantity ELSE 0)
       + TradeSum(Tail(ts), id)

\* every Order object held in a level list of the book
BookEntries(bk) ==
  UNION {Range(bk.bids[p]) : p \in DOMAIN bk.bids} \cup
  UNION {Range(bk.asks[p]) : p \in DOMAIN bk.asks}

InBook(bk) == {e.order_id : e \in BookEntries(bk)}

\* the highest bid level and the lowest ask level that hold an order
TopBid(bk) ==
  LET S == {p \in DOMAIN bk.bids : bk.bids[p] # <<>>} IN IF S = {} THEN None ELSE SetMax(S)

TopAsk(bk) ==
  LET S == {p \in DOMAIN bk.asks : bk.asks[p] # <<>>} IN IF S = {} THEN None ELSE SetMin(S)

\* a thread that has just created a trade against the head of the best level
Matching(t) == th[t].bpc = "upd_in"

RestingHead(t) == BestList(book, th[t].order.side)[1]

LastTrade == trades[Len(trades)]

\* C1: when no command is under way the book does not cross: best_bid <
\* best_ask whenever both are defined, for the cached best prices and for the
\* levels that actually hold orders
C1_NonCrossing ==
  Quiescent =>
    /\ (book.best_bid # None /\ book.best_ask # None) => book.best_bid < book.best_ask
    /\ (TopBid(book) # None /\ TopAsk(book) # None) => TopBid(book) < TopAsk(book)

C1_Witness ==
  /\ Quiescent
  /\ book.best_bid # None /\ book.best_ask # None
  /\ trades # <<>>

\* C2: price-time priority: when a trade is made against the head of a price
\* level, no other order resting at that level arrived before the head
C2_PriceTimePriority ==
  \A t \in Threads :
    Matching(t) =>
      LET lst == BestList(book, th[t].order.side)
      IN  \A i \in 2..Len(lst) :
            lst[i].order_id # lst[1].order_id =>
              IndexOf(arrivals, lst[1].order_id) < IndexOf(arrivals, lst[i].order_id)

\* C3: whenever no command is under way, the quantities of the persisted
\* trades that reference an order add up to the order's persisted
\* traded_quantity
C3_TradeSum ==
  Quiescent => \A id \in DOMAIN orders : TradeSum(trades, id) = orders[id].traded_quantity

\* C4: every persisted order has quantity = remaining_quantity + traded_quantity,
\* in every state, and so has every Order object in the book or in a handler
C4_QuantitySplit ==
  /\ \A id \in DOMAIN orders :
       orders[id].quantity = orders[id].remaining_quantity + orders[id].traded_quantity
  /\ \A e \in BookEntries(book) : e.quantity = e.remaining_quantity + e.traded_quantity
  /\ \A t \in Threads :
       th[t].order.quantity = th[t].order.remaining_quantity + th[t].order.traded_quantity

C4_Witness ==
  \E id \in DOMAIN orders :
    /\ orders[id].status = "CANCELLED"
    /\ orders[id].traded_quantity > 0
    /\ orders[id].remaining_quantity > 0

\* C5: the price of a trade is the limit price of the resting order it is made
\* against, as that order stands in the book
C5_RestingPrice ==
  \A t \in Threads : Matching(t) => LastTrade.price = RestingHead(t).price

C5_Witness ==
  \E t \in Threads :
    /\ Matching(t)
    /\ th[t].order.price # RestingHead(t).price
    /\ orders[RestingHead(t).order_id].price # RestingHead(t).price

\* a command that has changed the book and has not finished with it: inside
\* add_order, or a modify between its cancel_order and its add_order
BookOpen(t) ==
  \/ th[t].bpc \in {"match", "upd_in", "upd_rest"}
  \/ th[t].kind = "modify" /\ th[t].bpc = "start" /\ th[t].removed

StepOf(t) == lock = t \/ lock' = t \/ th'[t] # th[t]

\* C6: commands are applied to the book one at a time: while a command is
\* between two of its book mutations no other command changes the book
C6_SerialCommands ==
  [][\A t \in Threads : (BookOpen(t) /\ book' # book) => StepOf(t)]_vars

\* C7: commands take effect on the book in the order they were accepted: of two
\* accepted places, the later accepted is not taken up by add_order before the
\* earlier
C7_AcceptOrder ==
  \A i, j \in 1..Len(acceptSeq) :
    (i < j /\ acceptSeq[j] \in Range(applySeq)) =>
      /\ acceptSeq[i] \in Range(applySeq)
      /\ IndexOf(applySeq, acceptSeq[i]) < IndexOf(applySeq, acceptSeq[j])

\* C8: once the cancel of an order has returned success the order is not
\* inserted into the book any more and no trade created later references it
C8_CancelFinal ==
  [][\A x \in cancelOK :
       /\ x \notin InBook(book) => x \notin InBook(book')
       /\ \A i \in (Len(trades) + 1)..Len(trades') :
            trades'[i].bid_order # x /\ trades'[i].ask_order # x]_vars

\* C9: when the response of a place has been produced, add_order has finished
\* for that order
C9_PlaceSynchronous ==
  \A t \in Threads :
    (th[t].kind = "place" /\ th[t].order.order_id \in Range(acceptSeq)) => th[t].bpc = "done"

\* C10: when no command is under way, also after a failed store write, every
\* order's persisted traded_quantity is the sum of its persisted trades and
\* every order in the book has the quantities of its persisted row
C10_AtomicCommit ==
  Quiescent =>
    /\ \A id \in DOMAIN orders : TradeSum(trades, id) = orders[id].traded_quantity
    /\ \A e \in BookEntries(book) :
         /\ e.remaining_quantity = orders[e.order_id].remaining_quantity
         /\ e.traded_quantity = orders[e.order_id].traded_quantity

\* ------------------------------------------------- OrderBookSnapshotView.get
\* the rows one side of the snapshot selects
SnapshotIds(rows, side) ==
  {i \in DOMAIN rows :
     /\ rows[i].side = side
     /\ rows[i].status \in {"ACTIVE", "PARTIALLY_FILLED"}
     /\ rows[i].remaining_quantity > 0}

\* order_by('-price', 'created_at') for the buy side, order_by('price',
\* 'created_at') for the sell side, cut to depth entries
Snapshot(rows, side, depth) ==
  LET all == OrderBy(rows, SnapshotIds(rows, side), -side)
  IN  SubSeq(all, 1, MinOf(depth, Len(all)))

\* the depth the snapshot takes when the request names none
DefaultDepth == 5

\* the largest depth a request may name
DepthLimit == 20

\* C11: a reader of the store never sees a trade persisted while the
\* traded_quantity of one of its orders does not include it: in every state
\* the persisted trades of an order add up to its persisted traded_quantity
C11_ReaderAtomic ==
  \A id \in DOMAIN orders : TradeSum(trades, id) = orders[id].traded_quantity

\* C12: when a modify of an order resting in the book has returned and its
\* background processing has ended, the persisted order has the new price and
\* a status of ACTIVE, PARTIALLY_FILLED or FILLED, and if quantity remains the
\* snapshot lists it
C12_ModifyReadYourWrites ==
  [][\A t \in Threads :
       (th[t].kind = "modify" /\ th[t].removed /\ th'[t].kind = "idle") =>
         LET id == th[t].order.order_id
             r == orders'[id]
         IN  /\ r.price = th[t].new_price
             /\ r.status \in {"ACTIVE", "PARTIALLY_FILLED", "FILLED"}
             /\ (r.remaining_quantity > 0 =>
                   id \in Range(Snapshot(orders', r.side, DefaultDepth)))]_vars

\* C13: when no command is under way an order is in the in-memory book if and
\* only if its persisted row has is_active and remaining_quantity > 0
C13_BookIffActive ==
  Quiescent =>
    \A id \in DOMAIN orders :
      id \in InBook(book) <=> (orders[id].is_active /\ orders[id].remaining_quantity > 0)

\* C14: the save of a modify changes only the price: order_id, quantity,
\* remaining_quantity and traded_quantity of the persisted order are after
\* the save what they were before it
C14_ModifyKeepsFill ==
  [][\A t \in Threads :
       (th[t].kind = "modify" /\ th[t].vpc = "save" /\ th'[t].vpc # "save") =>
         LET id == th[t].order.order_id
         IN  /\ orders'[id].order_id = orders[id].order_id
             /\ orders'[id].quantity = orders[id].quantity
             /\ orders'[id].remaining_quantity = orders[id].remaining_quantity
             /\ orders'[id].traded_quantity = orders[id].traded_quantity]_vars

\* the level of its own side and price at which order o rests in book bk
OwnLevel(bk, o) == Level(IF o.side = BUY THEN bk.bids ELSE bk.asks, o.price)

\* thread t is a modify of an order that was resting in the book, and this
\* step re-inserts the order: add_order has found nothing more to match
Requeues(t) ==
  /\ th[t].kind = "modify" /\ th[t].removed
  /\ th[t].bpc = "match" /\ th'[t].bpc # "match"
  /\ book' # book

C16_ActiveIffUntraded ==
  Quiescent =>
    \A id \in DOMAIN orders :
      orders[id].status = "ACTIVE" <=>
        (orders[id].traded_quantity = 0 /\ orders[id].is_active)

\* C17: when no command is under way a persisted order has status
\* PARTIALLY_FILLED if and only if 0 < traded_quantity < quantity
C17_PartialIffBetween ==
  Quiescent =>
    \A id \in DOMAIN orders :
      orders[id].status = "PARTIALLY_FILLED" <=>
        (0 < orders[id].traded_quantity /\ orders[id].traded_quantity < orders[id].quantity)

C19_CancelledEmpty ==
  \A id \in DOMAIN orders :
    orders[id].status = "CANCELLED" => orders[id].remaining_quantity = 0

\* C20: when no command is under way a persisted order has is_active if and
\* only if its status is ACTIVE or PARTIALLY_FILLED
C20_ActiveFlag ==
  Quiescent =>
    \A id \in DOMAIN orders :
      orders[id].is_active <=> orders[id].status \in {"ACTIVE", "PARTIALLY_FILLED"}

\* sum of quantity * price of the persisted trades that reference order id
RECURSIVE TradeValue(_, _)
TradeValue(ts, id) ==
  IF ts = <<>> THEN 0
  ELSE (IF Head(ts).bid_order = id \/ Head(ts).ask_order = id
        THEN Head(ts).quantity * Head(ts).price ELSE 0)
       + TradeValue(Tail(ts), id)

\* C30: when no command is under way the persisted average_traded_price of an
\* order times its traded_quantity is exactly the sum of quantity * price of
\* its fills, and the average is 0 for an order without fills
C30_AverageExact ==
  Quiescent =>
    \A id \in DOMAIN orders :
      IF orders[id].traded_quantity = 0
      THEN orders[id].average_traded_price = 0
      ELSE orders[id].average_traded_price * orders[id].traded_quantity
             = TradeValue(trades, id) * AvgScale

\* a cancel request ends with "Order cancelled successfully" in this step
CancelSucceeds(t) ==
  /\ th[t].kind = "cancel"
  /\ th'[t].kind = "idle"
  /\ ~(th[t].vpc = "cancel" /\ cancel_raises(book, th[t].order.order_id))

\* C21: a successful cancel removes the order from the book, persists status
\* CANCELLED with is_active false, and leaves the order's quantity,
\* traded_quantity and price and all trades unchanged, whether the order was in
\* the book or active only in the store
C21_CancelEffect ==
  [][\A t \in Threads :
       CancelSucceeds(t) =>
         LET id == th[t].order.order_id
         IN  /\ id \notin InBook(book')
             /\ id \notin DOMAIN book'.order_lookup
             /\ orders'[id].status = "CANCELLED"
             /\ ~orders'[id].is_active
             /\ orders'[id].quantity = orders[id].quantity
             /\ orders'[id].traded_quantity = orders[id].traded_quantity
             /\ orders'[id].price = orders[id].price
             /\ trades' = trades]_vars

\* C22: modify or cancel of an unknown order id is answered not-found, modify
\* or cancel of a FILLED or CANCELLED order is answered with a state conflict
\* and is never taken up, and a rejected request leaves the persisted orders,
\* the trades and the in-memory book unchanged
C22_RejectUnchanged ==
  [][/\ (resp' # resp /\ resp'.op \in {"modify", "cancel"}) =>
          /\ orders' = orders /\ trades' = trades /\ book' = book
          /\ resp'.code \in {404, 400}
          /\ resp'.code = 404 <=> resp'.id \notin DOMAIN orders
          /\ resp'.code = 400 =>
                \/ orders[resp'.id].status \in {"FILLED", "CANCELLED"}
                \/ ~orders[resp'.id].is_active
     /\ \A t \in Threads :
          (th[t].kind = "idle" /\ th'[t].kind \in {"modify", "cancel"}) =>
            /\ th'[t].order.order_id \in DOMAIN orders
            /\ orders[th'[t].order.order_id].status \notin {"FILLED", "CANCELLED"}]_vars

\* a modify of a FILLED order has been answered with a state conflict while
\* another order stays in the book
C22_Witness ==
  /\ resp.op = "modify" /\ resp.code = 400
  /\ resp.id \in DOMAIN orders
  /\ orders[resp.id].status = "FILLED"
  /\ Quiescent

\* a settle request writes its trade in this step
Settles(i) == settling'[i] < settling[i]

\* C28: after a successful settle of an unsettled trade the persisted
\* is_settled is true and settlement_timestamp is set, and the trade's price,
\* quantity and order references are unchanged
C28_SettleEffect ==
  [][\A i \in 1..Len(trades) :
       (Settles(i) /\ ~trades[i].is_settled) =>
         /\ trades'[i].is_settled
         /\ trades'[i].settlement_timestamp # None
         /\ trades'[i].price = trades[i].price
         /\ trades'[i].quantity = trades[i].quantity
         /\ trades'[i].bid_order = trades[i].bid_order
         /\ trades'[i].ask_order = trades[i].ask_order]_vars

\* C29: a settle request that finds its trade settled is refused and one for
\* an unknown trade id is answered not-found, both leaving the trades as they
\* are; a settled trade never changes again, so is_settled never goes back
\* from true to false
C29_SettleOnce ==
  [][/\ \A i \in 1..Len(trades) : trades[i].is_settled => trades'[i] = trades[i]
     /\ (resp' # resp /\ resp'.op = "settle") =>
          /\ trades' = trades
          /\ resp'.code \in {404, 400}
          /\ resp'.code = 404 <=> resp'.id \notin 1..Len(trades)
          /\ resp'.code = 400 => trades[resp'.id].is_settled
     /\ \A i \in 1..MaxTrades :
          settling'[i] > settling[i] => (i \in 1..Len(trades) /\ ~trades[i].is_settled)]_vars

\* a settled trade has been sent for settlement again and refused
C29_Witness ==
  /\ resp.op = "settle" /\ resp.code = 400
  /\ resp.id \in 1..Len(trades)
  /\ trades[resp.id].is_settled

\* the resting quantity of one price level
RECURSIVE LevelTotal(_)
LevelTotal(q) == IF q = <<>> THEN 0 ELSE Head(q).remaining_quantity + LevelTotal(Tail(q))

\* best_bid, best_ask and the aggregate quantity of every price level
Aggregates(bk) ==
  [best_bid |-> bk.best_bid,
   best_ask |-> bk.best_ask,
   bids |-> [p \in Prices |-> LevelTotal(Level(bk.bids, p))],
   asks |-> [p \in Prices |-> LevelTotal(Level(bk.asks, p))]]

\* C24: the book the process starts with after a restart has the same
\* best_bid, best_ask and per-level aggregate quantities as the book before
\* the shutdown
C24_Recovery ==
  [][Restart => Aggregates(book') = Aggregates(book)]_vars

\* the depths a snapshot request may name: "if depth < 1 or depth > 20" is an
\* error
Depths == {d \in 1..MaxDepth : ~(d < 1 \/ d > DepthLimit)}

\* 'buy_orders' and 'sell_orders' of the response: one entry for each selected
\* order, 'price': float(order.price) (one float for each two-decimal price)
\* and 'quantity': order.remaining_quantity
SnapshotEntries(rows, side, depth) ==
  LET ids == Snapshot(rows, side, depth)
  IN  [k \in 1..Len(ids) |->
         [order_id |-> ids[k], price |-> rows[ids[k]].price,
          quantity |-> rows[ids[k]].remaining_quantity]]

RECURSIVE RemainingOver(_, _)
RemainingOver(rows, S) ==
  IF S = {} THEN 0
  ELSE LET i == CHOOSE x \in S : TRUE
       IN  rows[i].remaining_quantity + RemainingOver(rows, S \ {i})

\* the persisted active orders of one side at one price
ActiveAt(rows, side, p) ==
  {i \in DOMAIN rows : rows[i].is_active /\ rows[i].side = side /\ rows[i].price = p}

\* C26: every entry the snapshot emits for a side and a price carries the sum
\* of remaining_quantity over all persisted active orders of that side at that
\* price, however many orders rest there
C26_SnapshotSums ==
  \A side \in {BUY, SELL}, depth \in Depths :
    LET es == SnapshotEntries(orders, side, depth)
    IN  \A k \in 1..Len(es) :
          es[k].quantity = RemainingOver(orders, ActiveAt(orders, side, es[k].price))

\* the price levels of one side that hold a selected order
SnapshotLevels(rows, side) == {rows[i].price : i \in SnapshotIds(rows, side)}

\* C27: snapshot(depth) returns for each side min(depth, number of distinct
\* resting price levels) entries, one for each level, bids in descending and
\* asks in ascending price order
C27_SnapshotLevels ==
  \A side \in {BUY, SELL}, depth \in Depths :
    LET es == SnapshotEntries(orders, side, depth)
    IN  /\ Len(es) = MinOf(depth, Cardinality(SnapshotLevels(orders, side)))
        /\ \A k \in 1..(Len(es) - 1) :
              IF side = BUY THEN es[k].price > es[k + 1].price
                            ELSE es[k].price < es[k + 1].price

\* C25: when an order that does not cross has been placed and then cancelled,
\* and both requests have ended, the in-memory book (bids, asks, price-level
\* sets, order lookup, best_bid, best_ask) is the book before the place
C25_RoundTrip ==
  (/\ Quiescent
   /\ pre.id # 0
   /\ pre.id \in cancelOK
   /\ TradeSum(trades, pre.id) = 0) => book = pre.book

\* 999,999.99 in hundredths
PriceLimit == MAX_PRICE_UNITS * (10 ^ DECIMAL_PLACES) + 99

InBounds(price, quantity) ==
  /\ 0 < price /\ price <= PriceLimit
  /\ 1 <= quantity /\ quantity <= MAX_QUANTITY

\* C23: every order that is persisted or resting in the book has a price that
\* is a positive multiple of 0.01 not above 999,999.99 and a quantity between
\* 1 and 1,000,000, whether place or modify set the price
C23_Bounds ==
  /\ \A id \in DOMAIN orders : InBounds(orders[id].price, orders[id].quantity)
  /\ \A e \in BookEntries(book) : InBounds(e.price, e.quantity)

\* the reply the protocol names for a payload
Expected(p) ==
  IF ~p.well_formed THEN InvalidJSON
  ELSE IF p.shape = "object" /\ p.type = "ping" THEN Pong
  ELSE UnknownType

\* C31: every client message gets exactly one reply: pong for a JSON object
\* with type ping, "Unknown message type" for any other well-formed JSON
\* payload, objects or not, and "Invalid JSON" for text that is not JSON; and
\* a message leaves the connection and its periodic stream as they were
C31_OneReply ==
  /\ \A k \in 1..Len(ws.msgs) : ws.replies[k] = <<Expected(ws.msgs[k])>>
  /\ (ws.consumer # "none" /\ ~ws.open) => ~ws.update_task

Crosses(o, q) == IF o.side = BUY THEN q <= o.price ELSE q >= o.price

\* add_order returns in this step, by "return trades" of either path
Returns(t) == lock = t /\ lock' = 0

\* the opposite-side orders with quantity left at a crossing price, resting in
\* book bk or active in the store rows
CrossingLeft(bk, rows, o) ==
  {e.order_id : e \in {x \in BookEntries(bk) :
     x.side = -o.side /\ x.remaining_quantity > 0 /\ Crosses(o, x.price)}}
  \cup {i \in DOMAIN rows :
        /\ rows[i].side = -o.side /\ rows[i].is_active
        /\ rows[i].status \in {"ACTIVE", "PARTIALLY_FILLED"}
        /\ rows[i].remaining_quantity > 0
        /\ Crosses(o, rows[i].price)}

\* C33: when add_order finishes for an incoming order that still has
\* remaining_quantity > 0, no active opposite-side order at a crossing price
\* remains in the book or active in the store
C33_NoPartialPass ==
  [][\A t \in Threads :
       (Returns(t) /\ th[t].order.remaining_quantity > 0) =>
         CrossingLeft(book', orders', th[t].order) = {}]_vars

\* thread t creates a trade in this step
Trades(t) == th[t].bpc = "match" /\ th'[t].bpc = "upd_in"

\* the opposite-side levels that hold an order and are better for order o than
\* price q
BetterLevels(bk, o, q) ==
  {p \in DOMAIN OppLevels(bk, o.side) :
     /\ OppLevels(bk, o.side)[p] # <<>>
     /\ IF o.side = BUY THEN p < q ELSE p > q}

\* C34: within one add_order the trades come in price order of the resting
\* side, non-decreasing for an incoming buy and non-increasing for a sell, and
\* no order is touched while a better level still holds an order
C34_PriceOrder ==
  [][\A t \in Threads :
       Trades(t) =>
         LET o == th[t].order
             p == LastTrade'.price
         IN  /\ th[t].last_price # None =>
                  IF o.side = BUY THEN th[t].last_price <= p ELSE th[t].last_price >= p
             /\ BetterLevels(book, o, p) = {}]_vars

\* an add_order has traded at one level and then at the next one
C34_Witness ==
  \E t \in Threads :
    /\ Matching(t)
    /\ Len(trades) >= 2
    /\ trades[Len(trades) - 1].price # LastTrade.price
    /\ th[t].order.order_id \in
         {trades[Len(trades) - 1].bid_order, trades[Len(trades) - 1].ask_order}
         \cap {LastTrade.bid_order, LastTrade.ask_order}

\* bid_prices/ask_prices are the key sets, no level is empty, the best prices
\* are the extremes, and order_lookup holds exactly the orders of the level
\* lists with the price and side of their level
IndexConsistent(bk) ==
  /\ bk.bid_prices = DOMAIN bk.bids
  /\ bk.ask_prices = DOMAIN bk.asks
  /\ \A p \in DOMAIN bk.bids : bk.bids[p] # <<>>
  /\ \A p \in DOMAIN bk.asks : bk.asks[p] # <<>>
  /\ bk.best_bid = (IF bk.bid_prices = {} THEN None ELSE SetMax(bk.bid_prices))
  /\ bk.best_ask = (IF bk.ask_prices = {} THEN None ELSE SetMin(bk.ask_prices))
  /\ DOMAIN bk.order_lookup = InBook(bk)
  /\ \A p \in DOMAIN bk.bids : \A k \in 1..Len(bk.bids[p]) :
        LET id == bk.bids[p][k].order_id
        IN  id \in DOMAIN bk.order_lookup
              /\ bk.order_lookup[id] = [price |-> p, side |-> BUY]
  /\ \A p \in DOMAIN bk.asks : \A k \in 1..Len(bk.asks[p]) :
        LET id == bk.asks[p][k].order_id
        IN  id \in DOMAIN bk.order_lookup
              /\ bk.order_lookup[id] = [price |-> p, side |-> SELL]

\* C35: outside a command the indexes of the book agree: price sets and level
\* keys, no empty level, best prices the extremes or None, order_lookup exactly
\* the orders of the level lists with their level's price and side
C35_IndexConsistent == Quiescent => IndexConsistent(book)

\* the positions of the level lists: side, price, index
Positions(bk) ==
  UNION {{<<BUY, p, k>> : k \in 1..Len(bk.bids[p])} : p \in DOMAIN bk.bids}
  \cup UNION {{<<SELL, p, k>> : k \in 1..Len(bk.asks[p])} : p \in DOMAIN bk.asks}

HeldAt(bk, x) == IF x[1] = BUY THEN bk.bids[x[2]][x[3]] ELSE bk.asks[x[2]][x[3]]

\* C38: an order id is held at most once in the book: no order_id occurs in
\* more than one position of the bid and ask level lists
C38_HeldOnce ==
  \A x, y \in Positions(book) :
    HeldAt(book, x).order_id = HeldAt(book, y).order_id => x = y

\* the fields of a row that a terminal order keeps
Frozen(row) ==
  <<row.status, row.is_active, row.price, row.quantity, row.remaining_quantity,
    row.traded_quantity>>

\* C36: terminal states are absorbing: once the persisted status of an order
\* is FILLED or CANCELLED no step changes its status, is_active, price or
\* quantities, and no trade created afterwards references it
C36_TerminalAbsorbing ==
  [][\A id \in DOMAIN orders :
       orders[id].status \in {"FILLED", "CANCELLED"} =>
         /\ Frozen(orders'[id]) = Frozen(orders[id])
         /\ trades' # trades => id \notin {LastTrade'.bid_order, LastTrade'.ask_order}]_vars

\* C37: under every interleaving of place, modify and cancel requests with the
\* background threads, the persisted trades of an order never add up to more
\* than its quantity, and a persisted fill is never undone: traded_quantity
\* of a row never goes down
C37_NoOverFill ==
  [][\A id \in DOMAIN orders :
       /\ TradeSum(trades', id) <= orders'[id].quantity
       /\ orders'[id].traded_quantity >= orders[id].traded_quantity]_vars

\* a step of the add_order that thread t runs, from taking the lock to
\* returning
AddOrderStep(t) ==
  /\ lock = t \/ lock' = t
  /\ \A u \in Threads \ {t} : th'[u] = th[u]

Fill(o) == <<o.remaining_quantity, o.traded_quantity, o.status>>

\* C40: an add_order for order X changes only X and the opposite-side resting
\* orders at crossing prices it trades with: every other persisted order keeps
\* remaining_quantity, traded_quantity and status, and every order on X's own
\* side or at a non-crossing opposite level keeps them and its position in
\* its price level
C40_MatchFrame ==
  [][\A t \in Threads :
       AddOrderStep(t) =>
         LET X == th[t].order
         IN  /\ \A j \in DOMAIN orders \ {X.order_id} :
                  Fill(orders'[j]) # Fill(orders[j]) =>
                    /\ th[t].bpc = "upd_rest"
                    /\ j = RestingHead(t).order_id
                    /\ RestingHead(t).side = -X.side
                    /\ Crosses(X, OppBest(book, X.side))
             /\ \A x \in Positions(book) :
                  (/\ HeldAt(book, x).order_id # X.order_id
                   /\ x[1] = X.side \/ ~Crosses(X, x[2])) =>
                    /\ x \in Positions(book')
                    /\ HeldAt(book', x) = HeldAt(book, x)]_vars

\* an order has traded with the head of a level while another order rests
\* behind it and a third one on its own side
C40_Witness ==
  \E t \in Threads :
    /\ th[t].bpc = "match"
    /\ th[t].order.traded_quantity > 0
    /\ \E x \in Positions(book) :
         /\ HeldAt(book, x).order_id # th[t].order.order_id
         /\ x[1] = th[t].order.side \/ ~Crosses(th[t].order, x[2])

\* the loop of thread t is at an iteration that changes nothing: the loop
\* condition holds, the best level has no order, and the refreshed best price
\* is the same one
Spins(t) ==
  /\ th[t].bpc = "match"
  /\ MatchCond(book, th[t].order)
  /\ BestList(book, th[t].order.side) = <<>>
  /\ RefreshBest(book, th[t].order.side) = book

\* C39: matching terminates: no iteration of the loop of _match_buy_order /
\* _match_sell_order leaves the incoming order, the book and the best price
\* as they were
C39_Terminates == \A t \in Threads : ~Spins(t)

====
